---- MODULE Spec2Model ----
(***************************************************************************)
(* Spiking neural network controller (snn/john_code_snn.py) and the        *)
(* episode driver (cmaes_integration/snn_sim/run_simulation.py).           *)
(*                                                                         *)
(* Numbers.  Weights, biases and activation levels are fixed-point, in     *)
(* tenths (0.8 is 8, SPIKE_DECAY 0.1 is 1).  Inputs are whole numbers, so  *)
(* that input * weight is again in tenths.  A neuron's output 1.0 / 0.0 is *)
(* the whole number 1 / 0, which is what the next layer receives as input. *)
(* A duty cycle is the exact fraction [num, den].                          *)
(***************************************************************************)
EXTENDS Integers, Sequences, FiniteSets, TLC

VARIABLES
    node,   \* a stand-alone SpikyNode (TEST_NODE)
    layer,  \* a stand-alone SpikyLayer (TEST_LAYER): its nodes
    net,    \* a SpikyNet: [hidden_layer, output_layer], each a sequence of nodes
    twin,   \* a second SpikyNet of the same shape, for runs side by side
    sim,    \* the episode of run(): program counter, tick, genome, last action
    call    \* the last call made: operation, argument, result, fault, state before

vars == <<node, layer, net, twin, sim, call>>

---------------------------------------------------------------------------
\* Program constants (john_code_snn.py:9-12), in the units stated above.
SPIKE_DECAY == 1
MAX_BIAS == 10
MAX_FIRELOG_SIZE == 200
FIRELOG_THRESHOLD == 30

\* Bounds of the model.
MaxFirelog == 2       \* compute is offered while the history is shorter

---------------------------------------------------------------------------
\* Helpers for Python's list operations.

Max(a, b) == IF a >= b THEN a ELSE b
Min(a, b) == IF a <= b THEN a ELSE b

\* s[start:end] for 0 <= start, 0 <= end (Python clamps both to len(s)).
Slice(s, start, end) ==
    LET lo == Min(start, Len(s))
        hi == Min(end, Len(s))
    IN  IF hi <= lo THEN <<>> ELSE [i \in 1..(hi - lo) |-> s[lo + i]]

\* All sequences over S of length exactly n, and of length at most n.
SeqsOfLen(S, n) == [1..n -> S]
SeqsUpTo(S, n) == UNION {SeqsOfLen(S, k) : k \in 0..n}

\* sum(s[lo..hi]), by halves so that a long list needs little nesting.
RECURSIVE SumRange(_, _, _)
SumRange(s, lo, hi) ==
    IF lo > hi THEN 0
    ELSE IF lo = hi THEN s[lo]
    ELSE LET mid == (lo + hi) \div 2
         IN  SumRange(s, lo, mid) + SumRange(s, mid + 1, hi)

SumSeq(s) == SumRange(s, 1, Len(s))

---------------------------------------------------------------------------
\* SpikyNode

NoFault == "none"
IndexError == "IndexError"
NoRet == "no value"

\* SpikyNode.__init__ / init: level 0.0, empty firelog; size > 0 draws size
\* weights and one bias, size = 0 leaves the weight list empty.
SpikyNode(weights) == [weights |-> weights, level |-> 0, firelog |-> <<>>]

\* The while loop at the top of compute: pop(0) until at most
\* MAX_FIRELOG_SIZE entries are left, which keeps the newest ones.
TrimFirelog(log) ==
    IF Len(log) > MAX_FIRELOG_SIZE
    THEN SubSeq(log, Len(log) - MAX_FIRELOG_SIZE + 1, Len(log))
    ELSE log

\* Mutant: the decay without its floor at 0.
DecayUnclamped(level) == level - SPIKE_DECAY

\* self.level = max(self.level - SPIKE_DECAY, 0.0)
Decay(level) == Max(level - SPIKE_DECAY, 0)

\* (len(inputs) + 1) != len(self._weights)
InputMismatch(inputs, weights) == (Len(inputs) + 1) # Len(weights)

\* sum(inputs[i] * self._weights[i] for i in range(len(inputs)))
WeightedSum(inputs, weights) ==
    SumSeq([i \in 1..Len(inputs) |-> inputs[i] * weights[i]])

\* Mutant: the weighted sum subtracted instead of added.
IntegrateSubtracting(level, weighted_sum) == Max(level - weighted_sum, 0)

\* Mutant: the integration without its floor at 0.
IntegrateUnclamped(level, weighted_sum) == level + weighted_sum

\* self.level = max(self.level + weighted_sum, 0.0)
Integrate(level, weighted_sum) == Max(level + weighted_sum, 0)

\* self._weights[-1]; raises IndexError on an empty list (see HasBias).
get_bias(weights) == weights[Len(weights)]
HasBias(weights) == Len(weights) > 0

\* Mutant: the threshold must be exceeded, not reached.
FiresStrictly(level, bias) == level > bias

\* if self.level >= self.get_bias()
Fires(level, bias) == level >= bias

\* SpikyNode.compute: the node after the call, the value returned, the fault
\* raised.  The f-string of line 37 evaluates get_bias() before anything but
\* the trimming loop has run, so an empty weight list raises there.
SpikyNode_compute(n, inputs) ==
    LET log == TrimFirelog(n.firelog) IN
    IF ~HasBias(n.weights)
    THEN [node |-> [n EXCEPT !.firelog = log], ret |-> NoRet, fault |-> IndexError]
    ELSE
      LET decayed == Decay(n.level) IN
      IF InputMismatch(inputs, n.weights)
      THEN [node |-> [n EXCEPT !.firelog = log, !.level = decayed],
            ret |-> 0, fault |-> NoFault]
      ELSE
        LET level2 == Integrate(decayed, WeightedSum(inputs, n.weights)) IN
        IF Fires(level2, get_bias(n.weights))
        THEN [node |-> [n EXCEPT !.firelog = Append(log, 1), !.level = 0],
              ret |-> 1, fault |-> NoFault]
        ELSE [node |-> [n EXCEPT !.firelog = Append(log, 0), !.level = level2],
              ret |-> 0, fault |-> NoFault]

\* Mutant: the threshold itself counts as enough samples.
EnoughSamplesInclusive(log) == Len(log) >= FIRELOG_THRESHOLD

\* len(self.firelog) > FIRELOG_THRESHOLD
EnoughSamples(log) == Len(log) > FIRELOG_THRESHOLD

\* SpikyNode.duty_cycle: the fraction returned (0.0 is 0/1).
duty_cycle(n) ==
    IF Len(n.firelog) = 0 THEN [num |-> 0, den |-> 1]
    ELSE IF EnoughSamples(n.firelog)
         THEN [num |-> SumSeq(n.firelog), den |-> Len(n.firelog)]
         ELSE [num |-> 0, den |-> 1]

\* Mutant: only a vector that is too long is refused.
WeightSizeTooLong(input_weights, weights) == Len(input_weights) > Len(weights)

\* len(input_weights) != len(self._weights)
WeightSizeMismatch(input_weights, weights) == Len(input_weights) # Len(weights)

\* Mutant: set_weights re-initialises the neuron (init clears the firelog).
SpikyNode_set_weights_reinit(n, input_weights) ==
    IF WeightSizeMismatch(input_weights, n.weights)
    THEN n
    ELSE [n EXCEPT !.weights = input_weights, !.firelog = <<>>, !.level = 0]

\* SpikyNode.set_weights: the node after the call.
SpikyNode_set_weights(n, input_weights) ==
    IF WeightSizeMismatch(input_weights, n.weights)
    THEN n
    ELSE [n EXCEPT !.weights = input_weights]

\* if 0 <= idx < len(self._weights)
IndexInRange(idx, weights) == 0 <= idx /\ idx < Len(weights)

\* SpikyNode.set_weight: the node after the call (idx counts from 0).
SpikyNode_set_weight(n, idx, val) ==
    IF IndexInRange(idx, n.weights)
    THEN [n EXCEPT !.weights[idx + 1] = val]
    ELSE n

\* SpikyNode.set_bias: self._weights[-1] = val, which raises IndexError on an
\* empty list.
SpikyNode_set_bias(n, val) ==
    IF HasBias(n.weights)
    THEN [node |-> [n EXCEPT !.weights[Len(n.weights)] = val], fault |-> NoFault]
    ELSE [node |-> n, fault |-> IndexError]

---------------------------------------------------------------------------
\* SpikyLayer

\* SpikyLayer.__init__: one SpikyNode(num_inputs) per node, each with its own
\* random weights; the argument is the sequence of those weight lists.
SpikyLayer(weight_lists) ==
    [i \in 1..Len(weight_lists) |-> SpikyNode(weight_lists[i])]

\* SpikyLayer.compute: the list comprehension calls the nodes in order; a node
\* that raises ends the call, the nodes before it having computed.
RECURSIVE LayerComputeFrom(_, _, _, _)
LayerComputeFrom(nodes, inputs, idx, outs) ==
    IF idx > Len(nodes)
    THEN [nodes |-> nodes, ret |-> outs, fault |-> NoFault]
    ELSE
      LET r == SpikyNode_compute(nodes[idx], inputs) IN
      IF r.fault # NoFault
      THEN [nodes |-> [nodes EXCEPT ![idx] = r.node], ret |-> NoRet, fault |-> r.fault]
      ELSE LayerComputeFrom([nodes EXCEPT ![idx] = r.node], inputs, idx + 1,
                            Append(outs, r.ret))

SpikyLayer_compute(nodes, inputs) == LayerComputeFrom(nodes, inputs, 1, <<>>)

\* Mutant: the division rounds up.
WeightsPerNodeRoundedUp(input_weights, nodes) ==
    (Len(input_weights) + Len(nodes) - 1) \div Len(nodes)

\* weights_per_node = len(input_weights) // len(self.nodes)
WeightsPerNode(input_weights, nodes) == Len(input_weights) \div Len(nodes)

\* Mutant: consecutive chunks are one entry apart too far.
ChunkStride(input_weights, idx, weights_per_node) ==
    Slice(input_weights, idx * (weights_per_node + 1),
          idx * (weights_per_node + 1) + weights_per_node)

\* input_weights[start:end] for the node at 0-based index idx.
Chunk(input_weights, idx, weights_per_node) ==
    Slice(input_weights, idx * weights_per_node,
          idx * weights_per_node + weights_per_node)

\* SpikyLayer.set_weights: the nodes after the call.
SpikyLayer_set_weights(nodes, input_weights) ==
    IF nodes = <<>>
    THEN nodes
    ELSE
      LET weights_per_node == WeightsPerNode(input_weights, nodes) IN
      [i \in 1..Len(nodes) |->
          SpikyNode_set_weights(nodes[i], Chunk(input_weights, i - 1, weights_per_node))]

\* SpikyLayer.duty_cycles
duty_cycles(nodes) == [i \in 1..Len(nodes) |-> duty_cycle(nodes[i])]

---------------------------------------------------------------------------
\* SpikyNet

\* SpikyNet.__init__: hidden_layer = SpikyLayer(hidden_size, input_size),
\* output_layer = SpikyLayer(output_size, hidden_size).
SpikyNet(hidden_weight_lists, output_weight_lists) ==
    [hidden_layer |-> SpikyLayer(hidden_weight_lists),
     output_layer |-> SpikyLayer(output_weight_lists)]

\* SpikyNet.compute: hidden layer, then output layer on the hidden outputs.
SpikyNet_compute(n, inputs) ==
    LET h == SpikyLayer_compute(n.hidden_layer, inputs) IN
    IF h.fault # NoFault
    THEN [net |-> [n EXCEPT !.hidden_layer = h.nodes], ret |-> NoRet, fault |-> h.fault]
    ELSE
      LET o == SpikyLayer_compute(n.output_layer, h.ret) IN
      [net |-> [hidden_layer |-> h.nodes, output_layer |-> o.nodes],
       ret |-> o.ret, fault |-> o.fault]

\* len(layer.nodes) * len(layer.nodes[0].weights), for a layer with a node.
TotalNodeWeights(nodes) == Len(nodes) * Len(nodes[1].weights)

\* len(input_weights) == total_hidden_node_weights + total_output_node_weights
TotalMatches(input_weights, total_hidden, total_output) ==
    Len(input_weights) = total_hidden + total_output

\* input_weights[:total_hidden_node_weights]
HiddenSegment(input_weights, total_hidden) == Slice(input_weights, 0, total_hidden)

\* Mutant: the output segment starts one entry too late.
OutputSegmentOffByOne(input_weights, total_hidden) ==
    Slice(input_weights, total_hidden + 1, Len(input_weights))

\* input_weights[total_hidden_node_weights:]
OutputSegment(input_weights, total_hidden) ==
    Slice(input_weights, total_hidden, Len(input_weights))

\* SpikyNet.set_weights: the net after the call and the fault raised.
\* nodes[0] of an empty layer raises IndexError before anything is written.
SpikyNet_set_weights(n, input_weights) ==
    IF n.hidden_layer = <<>> \/ n.output_layer = <<>>
    THEN [net |-> n, fault |-> IndexError]
    ELSE
      LET total_hidden == TotalNodeWeights(n.hidden_layer)
          total_output == TotalNodeWeights(n.output_layer)
      IN
      IF TotalMatches(input_weights, total_hidden, total_output)
      THEN [net |-> [hidden_layer |->
                        SpikyLayer_set_weights(n.hidden_layer,
                                               HiddenSegment(input_weights, total_hidden)),
                     output_layer |->
                        SpikyLayer_set_weights(n.output_layer,
                                               OutputSegment(input_weights, total_hidden))],
            fault |-> NoFault]
      ELSE [net |-> n, fault |-> NoFault]

---------------------------------------------------------------------------
\* Values the model draws from.

InputVals == {0, 1}
NodeSizes == {0, 1, 2}
WeightVals == {-4, 0, 3, 8}
\* random.uniform(-1, 1) and random.uniform(0, MAX_BIAS)
InitWeightVals == {-4, 3}
InitBiasVals == {b \in {0, 8} : 0 <= b /\ b <= MAX_BIAS}

\* The weight lists SpikyNode.init can draw for a given size.
RandomWeights(size) ==
    IF size > 0
    THEN {w \o <<b>> : w \in SeqsOfLen(InitWeightVals, size), b \in InitBiasVals}
    ELSE {<<>>}

\* The vectors of the self-test of SpikyNode (john_code_snn.py:216, 222, 226).
TEST_NODE_WEIGHTS == <<7, -4, 9, 0, -2, 8>>
TEST_NODE_WEIGHTS_2 == <<7, -4, -9, 0, -2, 8>>
TEST_NODE_INPUT == <<1, 2, 3, 4, 5>>

\* Absent objects of a specification that does not use them.
NoNode == SpikyNode(<<>>)
NoLayer == <<>>
NoNet == [hidden_layer |-> <<>>, output_layer |-> <<>>]
NoSim == [pc |-> "idle", tick |-> 0, iters |-> 0, genome |-> <<>>,
          action |-> <<>>, returned |-> FALSE]
Construction(pre) ==
    [op |-> "init", arg |-> <<>>, ret |-> NoRet, fault |-> NoFault, pre |-> pre]

---------------------------------------------------------------------------
\* Spec: a stand-alone neuron under any sequence of calls.

\* Input vectors offered to compute: every length from 0 to one more than the
\* largest size, non-negative entries, and one all-negative vector per length.
NodeInputs ==
    UNION {SeqsOfLen(InputVals, n) \cup {[i \in 1..n |-> -1]} : n \in 0..3}
    \cup {TEST_NODE_INPUT}
\* Weight vectors offered to set_weights: every length from 0 to 3, one value
\* for the synaptic weights and one for the bias.
NodeWeightVectors ==
    {[i \in 1..n |-> IF i = n THEN b ELSE w] :
        n \in 0..3, w \in WeightVals, b \in WeightVals}
    \cup {TEST_NODE_WEIGHTS, TEST_NODE_WEIGHTS_2}

Init ==
    /\ node \in {SpikyNode(w) : w \in UNION {RandomWeights(size) : size \in NodeSizes}}
                \cup {SpikyNode([i \in 1..6 |-> IF i = 6 THEN b ELSE w]) :
                         w \in InitWeightVals, b \in InitBiasVals}
    /\ layer = NoLayer
    /\ net = NoNet
    /\ sim = NoSim
    /\ twin = NoNet
    /\ call = Construction(node)

NodeCompute(inputs) ==
    /\ LET r == SpikyNode_compute(node, inputs) IN
         /\ node' = r.node
         /\ call' = [op |-> "compute", arg |-> inputs, ret |-> r.ret,
                     fault |-> r.fault, pre |-> node]
    /\ UNCHANGED <<layer, net, sim, twin>>

NodeDutyCycle ==
    /\ call' = [op |-> "duty_cycle", arg |-> <<>>, ret |-> duty_cycle(node),
                fault |-> NoFault, pre |-> node]
    /\ UNCHANGED <<node, layer, net, sim, twin>>

NodeSetWeights(input_weights) ==
    /\ node' = SpikyNode_set_weights(node, input_weights)
    /\ call' = [op |-> "set_weights", arg |-> input_weights, ret |-> NoRet,
                fault |-> NoFault, pre |-> node]
    /\ UNCHANGED <<layer, net, sim, twin>>

BoundedCompute ==
    \E inputs \in NodeInputs :
        Len(node.firelog) < MaxFirelog /\ NodeCompute(inputs)

AnySetWeights == \E input_weights \in NodeWeightVectors : NodeSetWeights(input_weights)

Next ==
    \/ BoundedCompute
    \/ NodeDutyCycle
    \/ AnySetWeights

Spec == Init /\ [][Next]_vars

---------------------------------------------------------------------------
\* SpecLog: one neuron driven for a whole episode and beyond by a constant
\* input, with duty_cycle read at any tick.  The weights drawn give neurons
\* that never fire, that always fire, and that fire every 2nd, 4th or 5th tick.

LogInitWeights == {<<w, b>> : w \in {-4, 3, 8}, b \in {0, 8, MAX_BIAS}}
LogInputs == {<<1>>}

InitLog ==
    /\ node \in {SpikyNode(w) : w \in LogInitWeights}
    /\ layer = NoLayer
    /\ net = NoNet
    /\ sim = NoSim
    /\ twin = NoNet
    /\ call = Construction(node)

LogCompute == \E inputs \in LogInputs : NodeCompute(inputs)

NextLog ==
    \/ LogCompute
    \/ NodeDutyCycle

SpecLog == InitLog /\ [][NextLog]_vars

---------------------------------------------------------------------------
\* Values drawn for layers and networks.

LayerCounts == {0, 1, 2, 3}
LayerInputSizes == {0, 1, 2}
NetSizes == {0, 1, 2}

\* Two of the weight lists SpikyNode.init can draw for a size.
DrawnWeights(size) ==
    {w \in RandomWeights(size) :
        size > 0 => \E p \in {<<-4, 0>>, <<3, 8>>} :
                        \A j \in 1..(size + 1) : w[j] = IF j = size + 1 THEN p[2] ELSE p[1]}

\* Flat weight vectors whose entries all differ: start + 1, start + 2, ...
Ramp(n, start) == [i \in 1..n |-> start + i]
FlatVectors(maxlen) == {Ramp(n, start) : n \in 0..maxlen, start \in {0, 20}}

---------------------------------------------------------------------------
\* SpecLayer: a stand-alone layer under any sequence of set_weights and
\* compute calls.

MaxLayerVec == 10     \* longest flat vector offered to a layer (3 * 3 + 1)
MaxLayerFirelog == 1  \* layer compute is offered while histories are shorter

InitLayer ==
    /\ \E k \in LayerCounts, m \in LayerInputSizes :
          layer \in {SpikyLayer(ws) : ws \in SeqsOfLen(DrawnWeights(m), k)}
    /\ node = NoNode
    /\ net = NoNet
    /\ sim = NoSim
    /\ twin = NoNet
    /\ call = Construction(layer)

LayerSetWeights(input_weights) ==
    /\ layer' = SpikyLayer_set_weights(layer, input_weights)
    /\ call' = [op |-> "layer.set_weights", arg |-> input_weights, ret |-> NoRet,
                fault |-> NoFault, pre |-> layer]
    /\ UNCHANGED <<node, net, sim, twin>>

LayerCompute(inputs) ==
    /\ LET r == SpikyLayer_compute(layer, inputs) IN
         /\ layer' = r.nodes
         /\ call' = [op |-> "layer.compute", arg |-> inputs, ret |-> r.ret,
                     fault |-> r.fault, pre |-> layer]
    /\ UNCHANGED <<node, net, sim, twin>>

AnyLayerSetWeights ==
    \E input_weights \in FlatVectors(MaxLayerVec) : LayerSetWeights(input_weights)

BoundedLayerCompute ==
    \E inputs \in SeqsUpTo(InputVals, 2) :
        /\ \A i \in DOMAIN layer : Len(layer[i].firelog) < MaxLayerFirelog
        /\ LayerCompute(inputs)

NextLayer ==
    \/ AnyLayerSetWeights
    \/ BoundedLayerCompute

SpecLayer == InitLayer /\ [][NextLayer]_vars

---------------------------------------------------------------------------
\* SpecNet: a network under any sequence of set_weights and compute calls.

MaxNetVec == 13       \* longest flat vector offered to a network (2*3 + 2*3 + 1)
MaxNetFirelog == 1    \* network compute is offered while histories are shorter

InitNet ==
    /\ \E input_size \in NetSizes, hidden_size \in NetSizes, output_size \in NetSizes :
          net \in {SpikyNet(hw, ow) :
                      hw \in SeqsOfLen(DrawnWeights(input_size), hidden_size),
                      ow \in SeqsOfLen(DrawnWeights(hidden_size), output_size)}
    /\ node = NoNode
    /\ layer = NoLayer
    /\ sim = NoSim
    /\ twin = NoNet
    /\ call = Construction(net)

NetSetWeights(input_weights) ==
    /\ LET r == SpikyNet_set_weights(net, input_weights) IN
         /\ net' = r.net
         /\ call' = [op |-> "net.set_weights", arg |-> input_weights, ret |-> NoRet,
                     fault |-> r.fault, pre |-> net]
    /\ UNCHANGED <<node, layer, sim, twin>>

NetCompute(inputs) ==
    /\ LET r == SpikyNet_compute(net, inputs) IN
         /\ net' = r.net
         /\ call' = [op |-> "net.compute", arg |-> inputs, ret |-> r.ret,
                     fault |-> r.fault, pre |-> net]
    /\ UNCHANGED <<node, layer, sim, twin>>

AnyNetSetWeights ==
    \E input_weights \in FlatVectors(MaxNetVec) : NetSetWeights(input_weights)

BoundedNetCompute ==
    \E inputs \in SeqsUpTo(InputVals, 2) :
        /\ \A i \in DOMAIN net.hidden_layer :
              Len(net.hidden_layer[i].firelog) < MaxNetFirelog
        /\ \A i \in DOMAIN net.output_layer :
              Len(net.output_layer[i].firelog) < MaxNetFirelog
        /\ NetCompute(inputs)

NextNet ==
    \/ AnyNetSetWeights
    \/ BoundedNetCompute

SpecNet == InitNet /\ [][NextNet]_vars

---------------------------------------------------------------------------
\* SpecRun: one call of run(iters, genome, mode) of run_simulation.py.
\* Lengths are in tenths; a length that is a fraction is [num, den] in tenths.

ACTUATOR_MIN_LEN == 6
ACTUATOR_MAX_LEN == 16

MaxIters == 2         \* largest iters argument of run
MaxGenomeLen == 10    \* longest genome handed to run (the network takes 9)

\* SNNController(2, 2, 1, robot_config=...): the controller owns a
\* SpikyNet(input_size = 2, hidden_size = 2, output_size = 1).
SNNController(hidden_weight_lists, output_weight_lists) ==
    SpikyNet(hidden_weight_lists, output_weight_lists)

\* SNNController.set_snn_weights(genome): hands the genome to the network's
\* set_weights and returns nothing.
set_snn_weights(n, genome) == SpikyNet_set_weights(n, genome)

\* duty_cycle * 1.0 + 0.6, in tenths.
ScaleDutyCycle(dc) == [num |-> 10 * dc.num + 6 * dc.den, den |-> dc.den]

\* SNNController.get_lengths(inputs): one network tick, then each output
\* neuron's duty cycle scaled into an actuator length.
get_lengths(n, inputs) ==
    LET r == SpikyNet_compute(n, inputs) IN
    [net |-> r.net, fault |-> r.fault,
     ret |-> IF r.fault = NoFault
             THEN [i \in DOMAIN r.net.output_layer |->
                      ScaleDutyCycle(duty_cycle(r.net.output_layer[i]))]
             ELSE NoRet]

\* Mutant: a clip that only caps the length from above.
ClipFromAbove(x) ==
    IF x.num > ACTUATOR_MAX_LEN * x.den THEN [num |-> ACTUATOR_MAX_LEN, den |-> 1] ELSE x

\* np.clip(x, ACTUATOR_MIN_LEN, ACTUATOR_MAX_LEN) for one entry.
Clip(x) ==
    IF x.num < ACTUATOR_MIN_LEN * x.den THEN [num |-> ACTUATOR_MIN_LEN, den |-> 1]
    ELSE IF x.num > ACTUATOR_MAX_LEN * x.den THEN [num |-> ACTUATOR_MAX_LEN, den |-> 1]
    ELSE x

\* morphology.get_corner_distances(raw_pm_pos): the features of one tick.
CornerDistances == SeqsOfLen(InputVals, 2)

InitRun ==
    /\ net \in {SNNController(hw, ow) :
                   hw \in SeqsOfLen(DrawnWeights(2), 2),
                   ow \in SeqsOfLen(DrawnWeights(2), 1)}
    /\ \E iters \in 1..MaxIters, genome \in FlatVectors(MaxGenomeLen) :
          sim = [pc |-> "set_snn_weights", tick |-> 0, iters |-> iters,
                 genome |-> genome, action |-> <<>>, returned |-> FALSE]
    /\ node = NoNode
    /\ layer = NoLayer
    /\ twin = NoNet
    /\ call = Construction(net)

\* run, line 118: snn_controller.set_snn_weights(genome); its result is not
\* looked at, and only an exception would end run here.
RunSetWeights ==
    /\ sim.pc = "set_snn_weights"
    /\ LET r == set_snn_weights(net, sim.genome) IN
         /\ net' = r.net
         /\ sim' = [sim EXCEPT !.pc = IF r.fault = NoFault THEN "loop" ELSE "raised"]
         /\ call' = [op |-> "run.set_snn_weights", arg |-> sim.genome, ret |-> NoRet,
                     fault |-> r.fault, pre |-> net]
    /\ UNCHANGED <<node, layer, twin>>

\* run, lines 120-138: one iteration of the loop: features, get_lengths,
\* np.clip, sim.set_action, sim.step.
RunTick ==
    /\ sim.pc = "loop"
    /\ sim.tick < sim.iters
    /\ \E corner_distances \in CornerDistances :
         LET r == get_lengths(net, corner_distances) IN
           /\ net' = r.net
           /\ sim' = IF r.fault = NoFault
                     THEN [sim EXCEPT !.tick = sim.tick + 1,
                                      !.action = [i \in DOMAIN r.ret |-> Clip(r.ret[i])]]
                     ELSE [sim EXCEPT !.pc = "raised"]
           /\ call' = [op |-> "run.tick", arg |-> corner_distances, ret |-> r.ret,
                       fault |-> r.fault, pre |-> net]
    /\ UNCHANGED <<node, layer, twin>>

\* run, lines 148-158: the loop is over; the fitness is computed and returned.
RunReturn ==
    /\ sim.pc = "loop"
    /\ sim.tick = sim.iters
    /\ sim' = [sim EXCEPT !.pc = "done", !.returned = TRUE]
    /\ call' = [op |-> "run.return", arg |-> <<>>, ret |-> NoRet,
                fault |-> NoFault, pre |-> net]
    /\ UNCHANGED <<node, layer, net, twin>>

NextRun ==
    \/ RunSetWeights
    \/ RunTick
    \/ RunReturn

SpecRun == InitRun /\ [][NextRun]_vars

---------------------------------------------------------------------------
\* SpecActuators: the two places where duty cycles become actuator lengths:
\* the loop of run(), with a controller that may return any length, and
\* SpikyNet.get_output_state.

MaxSteps == 32        \* largest num_steps of get_output_state (duty cycles need 31 ticks)

\* Lengths a controller may hand back, in tenths: below, inside and above the
\* actuator range, whole and fractional.
ControllerLengths ==
    {[num |-> x, den |-> d] : x \in {-5, 6, 16, 17, 50}, d \in {1, 3}}

\* random.uniform(0, 1) for each of the 5 inputs of one step.
OutputStateInputs == {<<1, 1, 1, 1, 1>>}
OutputStateSteps == {0, 1, MaxSteps}

\* get_output_state, lines 177-182: the value returned after the loop.
OutputState(n) ==
    LET dcs == duty_cycles(n.output_layer) IN
    [continuous_actions |-> [i \in DOMAIN dcs |-> ScaleDutyCycle(dcs[i])],
     duty_cycles |-> dcs]

InitOut ==
    /\ net \in {SpikyNet(hw, ow) :
                   hw \in SeqsOfLen(DrawnWeights(5), 1),
                   ow \in UNION {SeqsOfLen(DrawnWeights(1), k) : k \in {1, 2}}}
    /\ \E num_steps \in OutputStateSteps :
          sim = [pc |-> "get_output_state", tick |-> 0, iters |-> num_steps,
                 genome |-> <<>>, action |-> <<>>, returned |-> FALSE]
    /\ node = NoNode
    /\ layer = NoLayer
    /\ twin = NoNet
    /\ call = Construction(net)

\* get_output_state, lines 172-176: one pass of the loop.
OutStep ==
    /\ sim.pc = "get_output_state"
    /\ sim.tick < sim.iters
    /\ \E inputs \in OutputStateInputs :
         LET r == SpikyNet_compute(net, inputs) IN
           /\ net' = r.net
           /\ sim' = IF r.fault = NoFault
                     THEN [sim EXCEPT !.tick = sim.tick + 1]
                     ELSE [sim EXCEPT !.pc = "raised"]
           /\ call' = [op |-> "get_output_state.step", arg |-> inputs, ret |-> r.ret,
                       fault |-> r.fault, pre |-> net]
    /\ UNCHANGED <<node, layer, twin>>

\* get_output_state, lines 177-182: the duty cycles, scaled, are returned.
OutReturn ==
    /\ sim.pc = "get_output_state"
    /\ sim.tick = sim.iters
    /\ sim' = [sim EXCEPT !.pc = "done", !.returned = TRUE,
                          !.action = OutputState(net).continuous_actions]
    /\ call' = [op |-> "get_output_state", arg |-> <<sim.iters>>,
                ret |-> OutputState(net), fault |-> NoFault, pre |-> net]
    /\ UNCHANGED <<node, layer, net, twin>>

\* run, lines 120-138, with a controller free to return any lengths: what
\* get_lengths computes, or any vector of ControllerLengths of that length.
ActuatorTick ==
    /\ sim.pc = "loop"
    /\ sim.tick < sim.iters
    /\ \E corner_distances \in CornerDistances :
         LET r == get_lengths(net, corner_distances) IN
           /\ net' = r.net
           /\ IF r.fault = NoFault
              THEN \E action \in {r.ret} \cup SeqsOfLen(ControllerLengths, Len(r.ret)) :
                     /\ sim' = [sim EXCEPT !.tick = sim.tick + 1,
                                           !.action = [i \in DOMAIN action |-> Clip(action[i])]]
                     /\ call' = [op |-> "run.tick", arg |-> corner_distances,
                                 ret |-> action, fault |-> NoFault, pre |-> net]
              ELSE /\ sim' = [sim EXCEPT !.pc = "raised"]
                   /\ call' = [op |-> "run.tick", arg |-> corner_distances,
                               ret |-> NoRet, fault |-> r.fault, pre |-> net]
    /\ UNCHANGED <<node, layer, twin>>

InitActuators == InitRun \/ InitOut

NextActuators ==
    \/ RunSetWeights
    \/ ActuatorTick
    \/ RunReturn
    \/ OutStep
    \/ OutReturn

SpecActuators == InitActuators /\ [][NextActuators]_vars

---------------------------------------------------------------------------
\* SpecTwin: two networks built with the same sizes, each with its own random
\* weights, handed the same weight vector and then the same inputs.

MaxTwinVec == 5       \* longest vector handed to both networks (a 2-1-1 network takes 5)
MaxTwinTicks == 2     \* compute calls made on both networks

TwinShapes == {<<1, 1, 1>>, <<2, 1, 1>>, <<1, 1, 0>>}
TwinNets(shape) ==
    {SpikyNet(hw, ow) : hw \in SeqsOfLen(DrawnWeights(shape[1]), shape[2]),
                        ow \in SeqsOfLen(DrawnWeights(shape[2]), shape[3])}
TwinVectors == {Ramp(n, 0) : n \in 0..MaxTwinVec}
TwinInputs == SeqsOfLen(InputVals, 1) \cup SeqsOfLen(InputVals, 2)

InitTwin ==
    /\ \E shape \in TwinShapes : net \in TwinNets(shape) /\ twin \in TwinNets(shape)
    /\ sim = [NoSim EXCEPT !.pc = "twin.set_weights"]
    /\ node = NoNode
    /\ layer = NoLayer
    /\ call = Construction(<<net, twin>>)

\* set_weights(input_weights) on each of the two networks; an exception ends
\* the session, a printed diagnostic does not.
TwinSetWeights ==
    /\ sim.pc = "twin.set_weights"
    /\ \E input_weights \in TwinVectors :
         LET a == SpikyNet_set_weights(net, input_weights)
             b == SpikyNet_set_weights(twin, input_weights) IN
           /\ net' = a.net
           /\ twin' = b.net
           /\ sim' = [sim EXCEPT !.genome = input_weights,
                                 !.pc = IF a.fault = NoFault /\ b.fault = NoFault
                                        THEN "twin.compute" ELSE "raised"]
           /\ call' = [op |-> "twin.set_weights", arg |-> input_weights, ret |-> NoRet,
                       fault |-> <<a.fault, b.fault>>, pre |-> <<net, twin>>]
    /\ UNCHANGED <<node, layer>>

\* compute(inputs) on each of the two networks.
TwinCompute ==
    /\ sim.pc = "twin.compute"
    /\ sim.tick < MaxTwinTicks
    /\ \E inputs \in TwinInputs :
         LET a == SpikyNet_compute(net, inputs)
             b == SpikyNet_compute(twin, inputs) IN
           /\ net' = a.net
           /\ twin' = b.net
           /\ sim' = [sim EXCEPT !.tick = sim.tick + 1]
           /\ call' = [op |-> "twin.compute", arg |-> inputs, ret |-> <<a.ret, b.ret>>,
                       fault |-> <<a.fault, b.fault>>, pre |-> <<net, twin>>]
    /\ UNCHANGED <<node, layer>>

NextTwin ==
    \/ TwinSetWeights
    \/ TwinCompute

SpecTwin == InitTwin /\ [][NextTwin]_vars

---------------------------------------------------------------------------
\* SpecSetters: one object, a neuron, a layer or a network, under any sequence
\* of setter and compute calls.

SetterIndexes == {-1, 0, 1, 2, 3}
SetterVals == {-4, 8}
SetterWeightVectors == {<<>>, <<8>>, <<3, 0>>, <<3, 3, 0>>, <<0, 0, 0, 0>>}

NodeSetWeight(idx, val) ==
    /\ node' = SpikyNode_set_weight(node, idx, val)
    /\ call' = [op |-> "set_weight", arg |-> <<idx, val>>, ret |-> NoRet,
                fault |-> NoFault, pre |-> node]
    /\ UNCHANGED <<layer, net, twin, sim>>

NodeSetBias(val) ==
    /\ LET r == SpikyNode_set_bias(node, val) IN
         /\ node' = r.node
         /\ call' = [op |-> "set_bias", arg |-> <<val>>, ret |-> NoRet,
                     fault |-> r.fault, pre |-> node]
    /\ UNCHANGED <<layer, net, twin, sim>>

InitOneNode ==
    /\ node \in {SpikyNode(w) : w \in UNION {RandomWeights(size) : size \in NodeSizes}}
    /\ layer = NoLayer
    /\ net = NoNet
    /\ twin = NoNet
    /\ sim = NoSim
    /\ call = Construction(node)

InitSetters ==
    \/ InitOneNode
    \/ InitLayer /\ layer # NoLayer
    \/ InitNet /\ net # NoNet

OnNode == layer = NoLayer /\ net = NoNet
OnLayer == layer # NoLayer
OnNet == net # NoNet

AnySetWeight ==
    \E idx \in SetterIndexes, val \in SetterVals : OnNode /\ NodeSetWeight(idx, val)

AnySetBias == \E val \in SetterVals : OnNode /\ NodeSetBias(val)

AnySetterSetWeights ==
    \E input_weights \in SetterWeightVectors : OnNode /\ NodeSetWeights(input_weights)

NextSetters ==
    \/ OnNode /\ BoundedCompute
    \/ AnySetterSetWeights
    \/ AnySetWeight
    \/ AnySetBias
    \/ OnLayer /\ AnyLayerSetWeights
    \/ OnLayer /\ BoundedLayerCompute
    \/ OnNet /\ AnyNetSetWeights
    \/ OnNet /\ BoundedNetCompute

SpecSetters == InitSetters /\ [][NextSetters]_vars

---------------------------------------------------------------------------
\* Claims about a single neuron.

Fresh(n) == n.level = 0 /\ n.firelog = <<>>
Ones(log) == Cardinality({i \in DOMAIN log : log[i] = 1})
RECURSIVE Dot(_, _, _)
Dot(x, w, k) == IF k = 0 THEN 0 ELSE x[k] * w[k] + Dot(x, w, k - 1)
ValidCompute == call.op = "compute" /\ Len(call.arg) + 1 = Len(call.pre.weights)

\* C4: a valid compute call (as many inputs as synaptic weights) is exactly one
\* leaky integrate-and-fire step: level1 = max(level - DECAY, 0), level2 =
\* max(level1 + sum of inputs[i]*weights[i], 0); if level2 >= bias it returns
\* 1.0, appends 1 to the history and leaves level 0, otherwise it returns 0.0,
\* appends 0 and leaves level2; the weights are unchanged.
C4_LeakyIntegrateAndFire ==
    ValidCompute =>
        LET w == call.pre.weights
            level1 == IF call.pre.level - SPIKE_DECAY > 0 THEN call.pre.level - SPIKE_DECAY ELSE 0
            total == level1 + Dot(call.arg, w, Len(call.arg))
            level2 == IF total > 0 THEN total ELSE 0
            bias == w[Len(w)]
        IN  /\ call.fault = NoFault
            /\ call.ret \in {0, 1}
            /\ node.weights = w
            /\ IF level2 >= bias
               THEN /\ call.ret = 1
                    /\ node.level = 0
                    /\ node.firelog = call.pre.firelog \o <<1>>
               ELSE /\ call.ret = 0
                    /\ node.level = level2
                    /\ node.firelog = call.pre.firelog \o <<0>>

\* C4 witness: a resting neuron with a positive level integrates a second
\* valid input and fires.
C4_Witness ==
    /\ ValidCompute
    /\ call.pre.level > 0
    /\ Len(call.arg) = 2
    /\ call.ret = 1
    /\ node.firelog = <<0, 1>>

FirstTestCompute ==
    /\ call.op = "compute"
    /\ Fresh(call.pre)
    /\ call.pre.weights = <<7, -4, 9, 0, -2, 8>>
    /\ call.arg = <<1, 2, 3, 4, 5>>

\* C5 as stated: the fresh neuron with weights [0.7,-0.4,0.9,0.0,-0.2], bias
\* 0.8 and input [1,2,3,4,5] does not fire: returns 0.0, records 0, level 0.5.
C5_DoesNotFire ==
    FirstTestCompute =>
        /\ call.ret = 0
        /\ node.firelog = <<0>>
        /\ node.level = 5

\* C5 amended: that neuron fires on this input (the weighted sum is 1.6, not
\* 0.6): the call returns 1.0, records 1 and leaves the level at 0.
C5_Fires ==
    FirstTestCompute =>
        /\ call.fault = NoFault
        /\ call.ret = 1
        /\ node.firelog = <<1>>
        /\ node.level = 0

C5_Witness == FirstTestCompute /\ call.ret = 1

AllZero(w) == \A i \in DOMAIN w : w[i] = 0
NonNegative(x) == \A i \in DOMAIN x : x[i] >= 0
ZeroNeuronFirstCall ==
    /\ ValidCompute
    /\ Fresh(call.pre)
    /\ AllZero(call.pre.weights)
    /\ NonNegative(call.arg)

\* C8: a fresh neuron with all-zero weights and zero bias fires on its first
\* compute call for any non-negative input of the right length: the call
\* returns 1.0 and the history is then exactly [1], the level 0.
C8_ZeroNeuronFires ==
    ZeroNeuronFirstCall =>
        /\ call.fault = NoFault
        /\ call.ret = 1
        /\ node.firelog = <<1>>
        /\ node.level = 0

C8_Witness == ZeroNeuronFirstCall /\ Len(call.arg) = 2 /\ call.arg[2] = 1 /\ call.ret = 1

\* C9 as stated: a neuron of size 0 (empty weight list) is supported: compute
\* on the empty input it is sized for raises no fault and returns 0.0 or 1.0.
C9_SizeZeroComputes ==
    (call.op = "compute" /\ call.pre.weights = <<>> /\ call.arg = <<>>) =>
        /\ call.fault = NoFault
        /\ call.ret \in {0, 1}

\* C6 as stated: the firing history never holds more than MAX_FIRELOG_SIZE
\* entries.
C6_FirelogBounded == Len(node.firelog) <= MAX_FIRELOG_SIZE

\* C7: duty_cycle returns exactly 0.0 while the history holds at most
\* FIRELOG_THRESHOLD entries, however many are 1; with more entries it returns
\* (number of 1s) / (history length), a value in [0, 1]; it changes nothing.
C7_DutyCycle ==
    call.op = "duty_cycle" =>
        /\ call.fault = NoFault
        /\ node = call.pre
        /\ IF Len(node.firelog) <= 30
           THEN call.ret = [num |-> 0, den |-> 1]
           ELSE /\ call.ret.num = Ones(node.firelog)
                /\ call.ret.den = Len(node.firelog)
                /\ 0 <= call.ret.num
                /\ call.ret.num <= call.ret.den

\* C7 witness: exactly 30 entries, some of them 1, and duty_cycle returned 0.0.
C7_Witness ==
    /\ call.op = "duty_cycle"
    /\ Len(node.firelog) = 30
    /\ Ones(node.firelog) > 0
    /\ call.ret.num = 0

---------------------------------------------------------------------------
\* Claims about layers and networks.

WeightsOf(nodes) == [i \in DOMAIN nodes |-> nodes[i].weights]

\* The input size a layer was built with, read off its first node: a node of
\* size 0 has an empty weight list, a node of size m > 0 has m + 1 entries.
InputSizeOf(nodes) ==
    IF nodes = <<>> \/ nodes[1].weights = <<>> THEN 0 ELSE Len(nodes[1].weights) - 1

\* hidden_count*(input_size+1) + output_count*(hidden_size+1)
ExpectedLength(n) ==
    Len(n.hidden_layer) * (InputSizeOf(n.hidden_layer) + 1)
    + Len(n.output_layer) * (Len(n.hidden_layer) + 1)

AllSizesPositive(n) ==
    /\ Len(n.hidden_layer) >= 1
    /\ Len(n.output_layer) >= 1
    /\ n.hidden_layer[1].weights # <<>>

ExactSetWeights ==
    /\ call.op = "net.set_weights"
    /\ AllSizesPositive(call.pre)
    /\ Len(call.arg) = ExpectedLength(call.pre)

\* C1: round trip.  For a network with all sizes >= 1 and a vector v of length
\* hidden_size*(input_size+1) + output_size*(hidden_size+1), after
\* set_weights(v) hidden neuron i holds v[i*(input_size+1) .. (i+1)*(input_size+1))
\* and output neuron j the corresponding slice of the remainder, so that the
\* weights of the hidden neurons followed by those of the output neurons are v.
C1_RoundTrip ==
    ExactSetWeights =>
        LET v == call.arg
            h == Len(net.hidden_layer)
            wh == InputSizeOf(call.pre.hidden_layer) + 1
            wo == h + 1
        IN  /\ call.fault = NoFault
            /\ Len(net.hidden_layer) = Len(call.pre.hidden_layer)
            /\ Len(net.output_layer) = Len(call.pre.output_layer)
            /\ \A i \in DOMAIN net.hidden_layer :
                  net.hidden_layer[i].weights = SubSeq(v, (i - 1) * wh + 1, i * wh)
            /\ \A j \in DOMAIN net.output_layer :
                  net.output_layer[j].weights =
                      SubSeq(v, h * wh + (j - 1) * wo + 1, h * wh + j * wo)

\* C1 witness: a 2-2-2 network took a 12-entry vector that differs from the
\* weights it had.
C1_Witness ==
    /\ ExactSetWeights
    /\ Len(call.arg) = 12
    /\ WeightsOf(net.hidden_layer) # WeightsOf(call.pre.hidden_layer)
    /\ WeightsOf(net.output_layer) # WeightsOf(call.pre.output_layer)
    /\ net.output_layer[2].weights = SubSeq(call.arg, 10, 12)

\* C2 as stated: set_weights with a vector whose length differs from
\* hidden_count*(input_size+1) + output_count*(hidden_size+1) leaves the
\* weights of every hidden and output neuron as they were.
C2_MismatchLeavesWeights ==
    (call.op = "net.set_weights" /\ Len(call.arg) # ExpectedLength(call.pre)) =>
        /\ WeightsOf(net.hidden_layer) = WeightsOf(call.pre.hidden_layer)
        /\ WeightsOf(net.output_layer) = WeightsOf(call.pre.output_layer)

\* C10 as stated: on a layer of k >= 1 neurons with m inputs each, set_weights
\* with a vector whose length is not exactly k*(m+1) leaves every neuron's
\* weights as they were.
C10_LayerMismatchLeavesWeights ==
    (/\ call.op = "layer.set_weights"
     /\ Len(call.pre) >= 1
     /\ Len(call.arg) # Len(call.pre) * (InputSizeOf(call.pre) + 1)) =>
        WeightsOf(layer) = WeightsOf(call.pre)

C11_OutputLength ==
    call.op = "net.compute" =>
        /\ call.fault = NoFault
        /\ Len(call.ret) = Len(net.output_layer)

\* C14: SpikyNode.set_weights(v) replaces the whole weight list by v when
\* len(v) equals its length and leaves it unchanged otherwise; either way the
\* list is as long after the call as before.
C14_NodeSetWeights ==
    call.op = "set_weights" =>
        /\ call.fault = NoFault
        /\ Len(node.weights) = Len(call.pre.weights)
        /\ IF Len(call.arg) = Len(call.pre.weights)
           THEN node.weights = call.arg
           ELSE node.weights = call.pre.weights

\* C14 witness: a neuron of size 2 took a new 3-entry vector, and one refused
\* a 2-entry vector.
C14_Witness ==
    /\ call.op = "set_weights"
    /\ Len(call.pre.weights) = 3
    /\ \/ Len(call.arg) = 3 /\ node.weights = call.arg /\ call.arg # call.pre.weights
       \/ Len(call.arg) = 2 /\ node.weights = call.pre.weights

\* The slice input[i*w : (i+1)*w] of a vector, for the 1-based neuron i.
OfferedChunk(v, i, w) == SubSeq(v, (i - 1) * w + 1, i * w)

\* C17: SpikyLayer.set_weights on k >= 1 neurons offers neuron i the slice
\* input[i*w : (i+1)*w] with w = floor(len(input)/k) (the neuron takes it when
\* it has w entries itself); the trailing len(input) mod k entries reach no
\* neuron; with k = 0 the call does nothing.
C17_LayerChunks ==
    call.op = "layer.set_weights" =>
        /\ call.fault = NoFault
        /\ Len(layer) = Len(call.pre)
        /\ \A i \in DOMAIN layer :
              LET w == Len(call.arg) \div Len(call.pre) IN
              layer[i].weights =
                  IF Len(call.pre[i].weights) = w
                  THEN OfferedChunk(call.arg, i, w)
                  ELSE call.pre[i].weights

\* C17 witness: two neurons of two entries each took [1,2] and [3,4] of a
\* five-entry vector, whose last entry reached neither.
C17_Witness ==
    /\ call.op = "layer.set_weights"
    /\ Len(call.arg) = 5
    /\ Len(layer) = 2
    /\ layer[1].weights = SubSeq(call.arg, 1, 2)
    /\ layer[2].weights = SubSeq(call.arg, 3, 4)
    /\ WeightsOf(layer) # WeightsOf(call.pre)

\* C19: SpikyLayer.set_weights is all-or-nothing: after a call either every
\* neuron's weights are its chunk or no neuron's weights changed.
C19_AllOrNothing ==
    call.op = "layer.set_weights" =>
        \/ WeightsOf(layer) = WeightsOf(call.pre)
        \/ \A i \in DOMAIN layer :
              layer[i].weights =
                  OfferedChunk(call.arg, i, Len(call.arg) \div Len(call.pre))

\* C19 witness: a layer of three neurons was rewritten as a whole, and the
\* same layer refuses a vector as a whole.
C19_Witness ==
    /\ call.op = "layer.set_weights"
    /\ Len(layer) = 3
    /\ \/ \A i \in DOMAIN layer : layer[i].weights # call.pre[i].weights
       \/ /\ Len(call.arg) >= 3
          /\ Len(layer[1].weights) >= 2
          /\ WeightsOf(layer) = WeightsOf(call.pre)

---------------------------------------------------------------------------
\* Claims about the setters and the dynamics state.

SetWeightInRange == IndexInRange(call.arg[1], call.pre.weights)
AllButLast(w) == SubSeq(w, 1, Len(w) - 1)

\* C13: set_weight and set_bias never raise, on any neuron: set_weight with an
\* index outside [0, len(weights)) leaves the weight list unchanged, with an
\* index in range it changes exactly that entry, and set_bias changes only the
\* last entry.
C13_SettersNeverRaise ==
    /\ call.op = "set_weight" =>
          /\ call.fault = NoFault
          /\ IF SetWeightInRange
             THEN node.weights = [call.pre.weights EXCEPT ![call.arg[1] + 1] = call.arg[2]]
             ELSE node.weights = call.pre.weights
    /\ call.op = "set_bias" =>
          /\ call.fault = NoFault
          /\ Len(node.weights) = Len(call.pre.weights)
          /\ AllButLast(node.weights) = AllButLast(call.pre.weights)

Range(s) == {s[i] : i \in DOMAIN s}
AllNeurons == {node} \cup Range(layer) \cup Range(net.hidden_layer) \cup Range(net.output_layer)

\* C16: the level of every neuron is never negative, whatever computes and
\* setters were called, and right after a valid compute the level is 0 with
\* the neuron fired, or strictly below the bias with the neuron resting.
C16_LevelNonNegative ==
    /\ \A n \in AllNeurons : n.level >= 0
    /\ ValidCompute =>
          \/ call.ret = 1 /\ node.level = 0
          \/ call.ret = 0 /\ node.level < get_bias(node.weights)

\* A resting neuron whose level was floored at 0 by a negative weighted sum.
C16_Witness ==
    /\ ValidCompute
    /\ call.ret = 0
    /\ call.pre.level > SPIKE_DECAY
    /\ node.level = 0
    /\ WeightedSum(call.arg, call.pre.weights) < 0

SynapticCount(weights) == Max(Len(weights) - 1, 0)
IsSuffix(s, t) == \E k \in 0..Len(t) : s = SubSeq(t, k + 1, Len(t))

\* C18: compute with a number of inputs different from the number of synaptic
\* weights returns 0.0 without raising, appends nothing to the firing history,
\* leaves the weights unchanged, and still applies the decay to the level.
C18_MismatchIsNeutral ==
    (call.op = "compute" /\ Len(call.arg) # SynapticCount(call.pre.weights)) =>
        /\ call.fault = NoFault
        /\ call.ret = 0
        /\ IsSuffix(node.firelog, call.pre.firelog)
        /\ node.weights = call.pre.weights
        /\ node.level = Max(call.pre.level - SPIKE_DECAY, 0)

Dynamics(n) == [level |-> n.level, firelog |-> n.firelog]
DynamicsOf(nodes) == [i \in DOMAIN nodes |-> Dynamics(nodes[i])]

\* C20: no weight setter, at neuron, layer or network level, accepted, refused
\* or faulting, changes the level or the firing history of any neuron.
C20_SettersKeepDynamics ==
    /\ call.op \in {"set_weights", "set_weight", "set_bias"} =>
          Dynamics(node) = Dynamics(call.pre)
    /\ call.op = "layer.set_weights" =>
          DynamicsOf(layer) = DynamicsOf(call.pre)
    /\ call.op = "net.set_weights" =>
          /\ DynamicsOf(net.hidden_layer) = DynamicsOf(call.pre.hidden_layer)
          /\ DynamicsOf(net.output_layer) = DynamicsOf(call.pre.output_layer)

\* A network whose weights were replaced in mid-episode, one of its neurons
\* holding a positive level and a non-empty history.
C20_Witness ==
    /\ call.op = "net.set_weights"
    /\ call.fault = NoFault
    /\ WeightsOf(net.hidden_layer) # WeightsOf(call.pre.hidden_layer)
    /\ \E i \in DOMAIN net.hidden_layer :
          net.hidden_layer[i].level > 0 /\ net.hidden_layer[i].firelog # <<>>

---------------------------------------------------------------------------
\* Claims about actuator lengths.

InActuatorRange(x) ==
    /\ ACTUATOR_MIN_LEN * x.den <= x.num
    /\ x.num <= ACTUATOR_MAX_LEN * x.den
OutOfActuatorRange(x) == ~InActuatorRange(x)

\* C15: in every tick of run() every entry of the vector handed to
\* set_action lies in [0.6, 1.6], whatever lengths the controller returned,
\* and every continuous action of get_output_state lies in [0.6, 1.6].
C15_ActuatorsInRange ==
    /\ (call.op = "run.tick" /\ call.fault = NoFault) =>
          /\ Len(sim.action) = Len(call.ret)
          /\ \A i \in DOMAIN sim.action : InActuatorRange(sim.action[i])
    /\ call.op = "get_output_state" =>
          /\ Len(call.ret.continuous_actions) = Len(net.output_layer)
          /\ \A i \in DOMAIN call.ret.continuous_actions :
                InActuatorRange(call.ret.continuous_actions[i])

\* A tick in which the controller returned a length below the range.
C15_Witness ==
    /\ call.op = "run.tick"
    /\ call.fault = NoFault
    /\ Len(call.ret) = 1
    /\ call.ret[1].num < ACTUATOR_MIN_LEN * call.ret[1].den
    /\ sim.action[1] = [num |-> ACTUATOR_MIN_LEN, den |-> 1]

---------------------------------------------------------------------------
\* Claims about two networks run side by side.

\* C12: two fresh networks of the same shape that were handed the same weight
\* vector through set_weights and then the same inputs return the same
\* outputs, and hold the same levels and firing histories after every call.
C12_Determinism ==
    call.op = "twin.compute" =>
        /\ call.ret[1] = call.ret[2]
        /\ call.fault[1] = call.fault[2]
        /\ DynamicsOf(net.hidden_layer) = DynamicsOf(twin.hidden_layer)
        /\ DynamicsOf(net.output_layer) = DynamicsOf(twin.output_layer)

====
